---------------------------- MODULE Spec2Model ----------------------------
(***************************************************************************)
(* kubediag: MCP tools that list and get Kubernetes resources through a    *)
(* cached dynamic resolver and a sanitizer.                                *)
(*                                                                         *)
(* The repository holds two entry points: the package src/kubediag         *)
(* (kubernetes.py, mcp.py, main.py, env.py) and the single-file server     *)
(* main.py at the root.  `variant` says which of them the process runs:    *)
(* "pkg" or "legacy".                                                      *)
(*                                                                         *)
(* Python strings are sequences of one-character strings, so that lower(), *)
(* strip(), endswith(), slicing, len() and concatenation are computed.     *)
(* Python's None is the one-element sequence NoneV, which no string equals *)
(* (its element is not a single character).                                *)
(***************************************************************************)
EXTENDS Integers, Sequences, FiniteSets, TLC

VARIABLES
    variant,    \* "pkg" | "legacy": the entry point that is running
    listing,    \* what dynamic_client.resources.search() returns, in order
    cache,      \* _resource_api_cache: type string -> descriptor or NoneDesc
    last,       \* record of the last call: what it did and what it returned
    san,        \* the sanitizer harness: input, type name and output
    sso,        \* the login page: its configuration and the last visit
    calls,      \* the calls of get_resource_api in progress, one per thread
    cluster     \* the objects the API server stores, in listing order

vars == <<variant, listing, cache, last, san, sso, calls, cluster>>

----------------------------------------------------------------------------
(* Bounds of the model. *)

\* Direct resolver calls fill the cache with at most MaxCached type strings,
\* tool calls with at most MaxToolCached: a call that would add one more is
\* not taken.
MaxCached == 2

MaxToolCached == 1

\* The longest discovery listing drawn from ConflictKinds.
MaxListing == 2

\* The number of threads that call get_resource_api at the same time.
MaxRacers == 2

\* The longest string in a raw object handed to the sanitizer.
MaxStrLen == 1000

----------------------------------------------------------------------------
(* Python strings. *)

NoneV == <<"<None>">>

UpperChars ==
    <<"A","B","C","D","E","F","G","H","I","J","K","L","M",
      "N","O","P","Q","R","S","T","U","V","W","X","Y","Z">>

LowerChars ==
    <<"a","b","c","d","e","f","g","h","i","j","k","l","m",
      "n","o","p","q","r","s","t","u","v","w","x","y","z">>

\* The lower-case letter of each upper-case letter.
LowerMap ==
    [c \in {UpperChars[i] : i \in 1..26} |->
        LowerChars[CHOOSE i \in 1..26 : UpperChars[i] = c]]

LowerChar(c) == IF c \in DOMAIN LowerMap THEN LowerMap[c] ELSE c

\* str.lower()
Lower(s) == [i \in 1..Len(s) |-> LowerChar(s[i])]

\* str.endswith(suffix)
EndsWith(s, suffix) ==
    /\ Len(s) >= Len(suffix)
    /\ SubSeq(s, Len(s) - Len(suffix) + 1, Len(s)) = suffix

\* str.startswith(prefix)
StartsWith(s, prefix) ==
    /\ Len(s) >= Len(prefix)
    /\ SubSeq(s, 1, Len(prefix)) = prefix

IsSpace(c) == c \in {" ", "\t", "\n"}

RECURSIVE LStrip(_)
LStrip(s) == IF s # <<>> /\ IsSpace(Head(s)) THEN LStrip(Tail(s)) ELSE s

RECURSIVE RStrip(_)
RStrip(s) ==
    IF s # <<>> /\ IsSpace(s[Len(s)]) THEN RStrip(SubSeq(s, 1, Len(s) - 1)) ELSE s

\* str.strip()
Strip(s) == RStrip(LStrip(s))

\* Python truthiness of a str-or-None value: None and "" are falsy.
Truthy(s) == s # NoneV /\ s # <<>>

----------------------------------------------------------------------------
(* String literals used by the program and by the modelled cluster. *)

S_empty == <<>>
S_s == <<"s">>
S_pods == <<"p","o","d","s">>
S_pod == <<"p","o","d">>
S_PODS == <<"P","o","d","s">>
S_nodes == <<"n","o","d","e","s">>
S_secrets == <<"s","e","c","r","e","t","s">>
S_secret == <<"s","e","c","r","e","t">>
S_cats == <<"c","a","t","s">>
S_v1 == <<"v","1">>
S_v1beta1 == <<"v","1","b","e","t","a","1">>
S_metrics == <<"m","e","t","r","i","c","s",".","k","8","s",".","i","o">>
S_example == <<"e","x",".","i","o">>
S_default == <<"d","e","f","a","u","l","t">>
S_kube_system == <<"k","u","b","e","-","s","y","s","t","e","m">>
S_none == <<"n","o","n","e">>
S_null == <<"n","u","l","l">>
S_None_sp == <<" ","N","o","n","e"," ">>


----------------------------------------------------------------------------
(* Discovery: the resources the cluster registers.                         *)
(* A discovered resource carries group, api_version, name and namespaced;  *)
(* `malformed` marks an entry on which reading an attribute raises.        *)

Resource(g, v, n, ns) ==
    [group |-> g, api_version |-> v, name |-> n, namespaced |-> ns,
     malformed |-> FALSE]

\* Python's None as a cache value or a resolver result.
NoneDesc ==
    [group |-> NoneV, api_version |-> NoneV, name |-> NoneV,
     namespaced |-> FALSE, malformed |-> FALSE]

PodsCore == Resource(S_empty, S_v1, S_pods, TRUE)
PodsMetrics == Resource(S_metrics, S_v1beta1, S_pods, TRUE)
NodesCore == Resource(S_empty, S_v1, S_nodes, FALSE)
NodesCustom == Resource(S_example, S_v1, S_nodes, TRUE)
SecretsCore == Resource(S_empty, S_v1, S_secrets, TRUE)
Malformed == [Resource(S_example, S_v1, S_cats, TRUE) EXCEPT !.malformed = TRUE]

\* The kinds that share a name with another kind.
ConflictKinds == {PodsCore, PodsMetrics, NodesCore, NodesCustom}

FullListing ==
    <<PodsMetrics, PodsCore, NodesCore, NodesCustom, SecretsCore>>

\* The discovery listings the resolver is run against: every sequence of
\* distinct conflicting kinds of length at most MaxListing, and four fixed
\* listings.
Listings ==
    UNION { { l \in [1..n -> ConflictKinds] :
                \A i, j \in 1..n : l[i] = l[j] => i = j }
            : n \in 0..MaxListing }
    \cup {<<SecretsCore>>, <<Malformed>>, <<Malformed, PodsCore>>, FullListing}

\* The discovery listings the tools are run against.
ToolListings ==
    {<<PodsCore, NodesCore, SecretsCore>>, <<Malformed, SecretsCore>>, <<>>}

\* The resource-type strings a caller passes.
InputTypes ==
    {S_pods, S_pod, S_PODS, S_nodes, S_secrets, S_secret, S_cats, S_empty}

----------------------------------------------------------------------------
(* get_resource_api: the resolver with its cache.                          *)
(* Each variant returns [result, cache, queried]: the descriptor or        *)
(* NoneDesc, the cache after the call, and whether search() was called.    *)
(* `fails` is the discovery transport raising in search().                 *)

First(seq) == seq[1]

Put(c, k, v) == [x \in DOMAIN c \cup {k} |-> IF x = k THEN v ELSE c[x]]

\* kubernetes.py: exact match on the name, skipping entries that raise.
pkg_matching_resources(all_resources, resource_type) ==
    LET match(r) == ~r.malformed /\ r.name = resource_type
    IN  SelectSeq(all_resources, match)

\* kubernetes.py: the first candidate of the core group, else the first.
pkg_preferred_resource(matching_resources) ==
    LET n == Len(matching_resources)
        core(i) == matching_resources[i].group = S_empty
    IN  IF \E i \in 1..n : core(i)
        THEN matching_resources[
                 CHOOSE i \in 1..n : core(i) /\ \A j \in 1..(i - 1) : ~core(j)]
        ELSE First(matching_resources)

\* The resolver's answer: the result, the cache it leaves, whether it
\* called search(), and whether discovery raised (caught and logged).
Answer(result, c, queried, raised) ==
    [result |-> result, cache |-> c, queried |-> queried, raised |-> raised]

\* Fault injection: a cache miss whose discovery error is answered
\* without a cache write.
forgetful_discover(c, all_resources, fails, resource_type) ==
    IF fails
    THEN Answer(NoneDesc, c, TRUE, TRUE)
    ELSE IF pkg_matching_resources(all_resources, resource_type) = <<>>
    THEN Answer(NoneDesc, Put(c, resource_type, NoneDesc), TRUE, FALSE)
    ELSE Answer(pkg_preferred_resource(
                    pkg_matching_resources(all_resources, resource_type)),
                Put(c, resource_type,
                    pkg_preferred_resource(
                        pkg_matching_resources(all_resources, resource_type))),
                TRUE, FALSE)

\* kubernetes.py: the cache miss, from search() to the cache write.
pkg_discover(c, all_resources, fails, resource_type) ==
    IF fails
    THEN Answer(NoneDesc, Put(c, resource_type, NoneDesc), TRUE, TRUE)
    ELSE IF pkg_matching_resources(all_resources, resource_type) = <<>>
    THEN Answer(NoneDesc, Put(c, resource_type, NoneDesc), TRUE, FALSE)
    ELSE Answer(pkg_preferred_resource(
                    pkg_matching_resources(all_resources, resource_type)),
                Put(c, resource_type,
                    pkg_preferred_resource(
                        pkg_matching_resources(all_resources, resource_type))),
                TRUE, FALSE)

\* Fault injection: a resolver that takes a cached None as a miss and
\* discovers again.
retrying_get_resource_api(c, all_resources, fails, resource_type) ==
    IF resource_type \in DOMAIN c /\ c[resource_type] # NoneDesc
    THEN Answer(c[resource_type], c, FALSE, FALSE)
    ELSE pkg_discover(c, all_resources, fails, resource_type)

pkg_get_resource_api(c, all_resources, fails, resource_type) ==
    IF resource_type \in DOMAIN c
    THEN Answer(c[resource_type], c, FALSE, FALSE)
    ELSE pkg_discover(c, all_resources, fails, resource_type)

\* main.py: the lower-cased input and its singular/plural counterpart.
legacy_search_terms(resource_type) ==
    LET t == Lower(resource_type)
    IN  IF EndsWith(t, S_s)
        THEN {t, SubSeq(t, 1, Len(t) - 1)}
        ELSE {t, t \o S_s}

legacy_matching_resources(all_resources, resource_type) ==
    LET match(r) == Lower(r.name) \in legacy_search_terms(resource_type)
    IN  SelectSeq(all_resources, match)

\* main.py: the first namespaced candidate, else the first.
legacy_preferred_resource(matching_resources) ==
    LET n == Len(matching_resources)
        namespaced(i) == matching_resources[i].namespaced
    IN  IF \E i \in 1..n : namespaced(i)
        THEN matching_resources[
                 CHOOSE i \in 1..n :
                     namespaced(i) /\ \A j \in 1..(i - 1) : ~namespaced(j)]
        ELSE First(matching_resources)

\* main.py: the cache miss; resource.name raising on a malformed entry
\* ends in the outer except.
legacy_discover(c, all_resources, fails, resource_type) ==
    IF fails \/ \E i \in 1..Len(all_resources) : all_resources[i].malformed
    THEN Answer(NoneDesc, Put(c, resource_type, NoneDesc), TRUE, TRUE)
    ELSE IF legacy_matching_resources(all_resources, resource_type) = <<>>
    THEN Answer(NoneDesc, Put(c, resource_type, NoneDesc), TRUE, FALSE)
    ELSE Answer(legacy_preferred_resource(
                    legacy_matching_resources(all_resources, resource_type)),
                Put(c, resource_type,
                    legacy_preferred_resource(
                        legacy_matching_resources(all_resources, resource_type))),
                TRUE, FALSE)

legacy_get_resource_api(c, all_resources, fails, resource_type) ==
    IF resource_type \in DOMAIN c
    THEN Answer(c[resource_type], c, FALSE, FALSE)
    ELSE legacy_discover(c, all_resources, fails, resource_type)

get_resource_api(v, c, all_resources, fails, resource_type) ==
    IF v = "pkg"
    THEN pkg_get_resource_api(c, all_resources, fails, resource_type)
    ELSE legacy_get_resource_api(c, all_resources, fails, resource_type)

\* The cache miss of the running variant.
discover(v, c, all_resources, fails, resource_type) ==
    IF v = "pkg"
    THEN pkg_discover(c, all_resources, fails, resource_type)
    ELSE legacy_discover(c, all_resources, fails, resource_type)

\* The threads, and a thread's call of get_resource_api: where it is
\* (idle, check: before the cache test, search: before search(), store:
\* before the cache write, done: returned), its argument, the value it is
\* about to store, whether search() was called and raised, and the value
\* returned.
Racers == 1..MaxRacers

IdleCall ==
    [pc |-> "idle", key |-> NoneV, found |-> NoneDesc, queried |-> FALSE,
     raised |-> FALSE, result |-> NoneDesc]

NoCalls == [i \in Racers |-> IdleCall]

----------------------------------------------------------------------------
(* Documents: the values a resource object is made of.                     *)
(* A value is a record: t the Python type, and the payload in a field      *)
(* named after the type.  "other" is a value of any other type (a          *)
(* datetime, a tuple); its payload is its str().                           *)

DStr(s) == [t |-> "str", str |-> s]
DInt(n) == [t |-> "int", int |-> n]
DBool(b) == [t |-> "bool", bool |-> b]
DNull == [t |-> "null"]
DDict(f) == [t |-> "dict", map |-> f]
DList(items) == [t |-> "list", items |-> items]
DOther(s) == [t |-> "other", repr |-> s]

EmptyDict == DDict(<<>>)

\* Python truthiness of a value.
DocTruthy(d) ==
    CASE d.t = "null" -> FALSE
      [] d.t = "bool" -> d.bool
      [] d.t = "int" -> d.int # 0
      [] d.t = "str" -> d.str # <<>>
      [] d.t = "list" -> d.items # <<>>
      [] d.t = "dict" -> DOMAIN d.map # {}
      [] OTHER -> TRUE

\* key in d, for a dict d
HasKey(d, k) == d.t = "dict" /\ k \in DOMAIN d.map

\* d with d[k] = x
SetKey(d, k, x) == DDict(Put(d.map, k, x))

Digits == <<"0","1","2","3","4","5","6","7","8","9">>

\* str(n) for a natural number n
RECURSIVE IntToStr(_)
IntToStr(n) ==
    IF n < 10
    THEN <<Digits[n + 1]>>
    ELSE IntToStr(n \div 10) \o <<Digits[(n % 10) + 1]>>

S_truncated_prefix == <<".",".","."," ","[","t","r","u","n","c","a","t","e","d",","," ","o","r","i","g","i","n","a","l"," ","l","e","n","g","t","h",":"," ">>
S_truncated_suffix == <<"]">>
S_REDACTED == <<"R","E","D","A","C","T","E","D">>
K_metadata == <<"m","e","t","a","d","a","t","a">>
K_name == <<"n","a","m","e">>
K_namespace == <<"n","a","m","e","s","p","a","c","e">>
K_labels == <<"l","a","b","e","l","s">>
K_annotations == <<"a","n","n","o","t","a","t","i","o","n","s">>
K_data == <<"d","a","t","a">>

\* __truncate_deep's default max_length
MaxLength == 256

\* Fault injection: a note that follows the whole string instead of its
\* first max_length characters.
uncut_text(s, max_length) ==
    s \o S_truncated_prefix \o IntToStr(Len(s)) \o S_truncated_suffix

\* f"{s[:max_length]}... [truncated, original length: {len(s)}]"
truncated_text(s, max_length) ==
    SubSeq(s, 1, max_length) \o S_truncated_prefix \o IntToStr(Len(s))
        \o S_truncated_suffix

\* Fault injection: truncation that starts at max_length characters instead
\* of above it.
RECURSIVE eager_truncate_deep(_, _)
eager_truncate_deep(obj, max_length) ==
    CASE obj.t = "str" ->
            IF Len(obj.str) >= max_length
            THEN DStr(truncated_text(obj.str, max_length))
            ELSE obj
      [] obj.t = "dict" ->
            DDict([k \in DOMAIN obj.map |->
                     eager_truncate_deep(obj.map[k], max_length)])
      [] obj.t = "list" ->
            DList([i \in 1..Len(obj.items) |->
                     eager_truncate_deep(obj.items[i], max_length)])
      [] obj.t \in {"int", "float", "bool", "null"} -> obj
      [] OTHER ->
            IF Len(obj.repr) >= max_length
            THEN DStr(truncated_text(obj.repr, max_length))
            ELSE DStr(obj.repr)

RECURSIVE _truncate_deep(_, _)
_truncate_deep(obj, max_length) ==
    CASE obj.t = "str" ->
            IF Len(obj.str) > max_length
            THEN DStr(truncated_text(obj.str, max_length))
            ELSE obj
      [] obj.t = "dict" ->
            DDict([k \in DOMAIN obj.map |-> _truncate_deep(obj.map[k], max_length)])
      [] obj.t = "list" ->
            DList([i \in 1..Len(obj.items) |-> _truncate_deep(obj.items[i], max_length)])
      [] obj.t \in {"int", "float", "bool", "null"} -> obj
      [] OTHER ->
            IF Len(obj.repr) > max_length
            THEN DStr(truncated_text(obj.repr, max_length))
            ELSE DStr(obj.repr)

----------------------------------------------------------------------------
(* clean_resource_object: the sanitizer.                                   *)

A_kubectl == <<"k","u","b","e","c","t","l",".","k","u","b","e","r","n","e","t","e","s",".","i","o","/">>
A_kubernetes == <<"k","u","b","e","r","n","e","t","e","s",".","i","o","/">>
A_last_applied_full == <<"k","u","b","e","c","t","l",".","k","u","b","e","r","n","e","t","e","s",".","i","o","/","l","a","s","t","-","a","p","p","l","i","e","d","-","c","o","n","f","i","g","u","r","a","t","i","o","n">>
A_last_applied == <<"/","l","a","s","t","-","a","p","p","l","i","e","d","-","c","o","n","f","i","g","u","r","a","t","i","o","n">>
A_revision == <<"d","e","p","l","o","y","m","e","n","t",".","k","u","b","e","r","n","e","t","e","s",".","i","o","/","r","e","v","i","s","i","o","n">>
A_deployment_k8s == <<"d","e","p","l","o","y","m","e","n","t",".","k","u","b","e","r","n","e","t","e","s",".","i","o","/">>
A_pod_template == <<"p","o","d","-","t","e","m","p","l","a","t","e","-","g","e","n","e","r","a","t","i","o","n">>
A_autoscaling == <<"a","u","t","o","s","c","a","l","i","n","g",".">>
A_control_plane == <<"c","o","n","t","r","o","l","-","p","l","a","n","e",".">>
A_deployment == <<"d","e","p","l","o","y","m","e","n","t",".">>
A_job == <<"j","o","b",".">>
A_batch == <<"b","a","t","c","h",".">>
A_meta_helm == <<"m","e","t","a",".","h","e","l","m",".","s","h","/">>
A_helm == <<"h","e","l","m",".","s","h","/">>
A_team_owner == <<"t","e","a","m","-","o","w","n","e","r">>

\* kubernetes.py: the annotation keys that are dropped.
pkg_annotation_denied(key) ==
    \/ StartsWith(key, A_kubectl)
    \/ StartsWith(key, A_kubernetes)
    \/ key = A_last_applied_full
    \/ EndsWith(key, A_last_applied)
    \/ key = A_revision
    \/ StartsWith(key, A_deployment_k8s)
    \/ StartsWith(key, A_pod_template)
    \/ StartsWith(key, A_autoscaling)
    \/ StartsWith(key, A_control_plane)
    \/ StartsWith(key, A_deployment)
    \/ StartsWith(key, A_job)
    \/ StartsWith(key, A_batch)
    \/ StartsWith(key, A_meta_helm)
    \/ StartsWith(key, A_helm)

\* main.py: the annotation keys that are dropped.
legacy_annotation_denied(key) ==
    \/ StartsWith(key, A_kubectl)
    \/ StartsWith(key, A_kubernetes)

annotation_denied(v, key) ==
    IF v = "pkg" THEN pkg_annotation_denied(key) ELSE legacy_annotation_denied(key)

\* Fault injection: a metadata rule that filters the annotations and keeps
\* every other field.
unfiltered_metadata(v, original_metadata) ==
    LET om == original_metadata.map
        kept == DOMAIN om \ {K_annotations}
        annotated ==
            /\ K_annotations \in DOMAIN om
            /\ DocTruthy(om[K_annotations])
        cleaned_annotations ==
            LET a == om[K_annotations].map
                keys == {key \in DOMAIN a : ~annotation_denied(v, key)}
            IN  [key \in keys |-> a[key]]
        withAnn == annotated /\ DOMAIN cleaned_annotations # {}
    IN  DDict([k \in kept \cup (IF withAnn THEN {K_annotations} ELSE {}) |->
                  IF k = K_annotations /\ withAnn
                  THEN DDict(cleaned_annotations)
                  ELSE om[k]])

\* Rule 1: metadata keeps name, namespace, labels and the filtered
\* annotations (left out when nothing remains).  original_metadata is a dict.
cleaned_metadata(v, original_metadata) ==
    LET om == original_metadata.map
        kept == {K_name, K_namespace, K_labels} \cap DOMAIN om
        annotated ==
            /\ K_annotations \in DOMAIN om
            /\ DocTruthy(om[K_annotations])
        cleaned_annotations ==
            LET a == om[K_annotations].map
                keys == {key \in DOMAIN a : ~annotation_denied(v, key)}
            IN  [key \in keys |-> a[key]]
        withAnn == annotated /\ DOMAIN cleaned_annotations # {}
    IN  DDict([k \in kept \cup (IF withAnn THEN {K_annotations} ELSE {}) |->
                  IF k = K_annotations /\ withAnn
                  THEN DDict(cleaned_annotations)
                  ELSE om[k]])

\* The keys of {key: "REDACTED" for key in data}: iterating a dict yields
\* its keys, a list its items (strings here), a str its characters.
redacted_keys(data) ==
    CASE data.t = "dict" -> DOMAIN data.map
      [] data.t = "list" -> {data.items[i].str : i \in 1..Len(data.items)}
      [] OTHER -> {<<data.str[i]>> : i \in 1..Len(data.str)}

\* Fault injection: a redaction that replaces string values only.
redacted_strings(data) ==
    DDict([key \in redacted_keys(data) |->
             IF data.map[key].t = "str" THEN DStr(S_REDACTED) ELSE data.map[key]])

\* Rule 2: every value of a secret's data becomes the marker.
redacted_data(data) == DDict([key \in redacted_keys(data) |-> DStr(S_REDACTED)])

\* sub in s, for two strs
InStr(sub, s) ==
    \E i \in 1..(Len(s) - Len(sub) + 1) : SubSeq(s, i, i + Len(sub) - 1) = sub

\* dict(obj) takes a list whose items are pairs: a str of two characters,
\* or a list of two items (its first a str here, the keys of a document
\* being strs).
IsPair(item) ==
    \/ item.t = "str" /\ Len(item.str) = 2
    \/ item.t = "list" /\ Len(item.items) = 2 /\ item.items[1].t = "str"

PairKey(item) == IF item.t = "str" THEN <<item.str[1]>> ELSE item.items[1].str

PairValue(item) ==
    IF item.t = "str" THEN DStr(<<item.str[2]>>) ELSE item.items[2]

\* dict(items): the last pair of a key gives its value.
dict_of(items) ==
    LET n == Len(items)
        keys == {PairKey(items[i]) : i \in 1..n}
        lastOf(k) == CHOOSE i \in 1..n :
                        /\ PairKey(items[i]) = k
                        /\ \A j \in (i + 1)..n : PairKey(items[j]) # k
    IN  DDict([k \in keys |-> PairValue(items[lastOf(k)])])

\* The mapping the rules work on, for a truthy obj.  A resource object
\* with to_dict() is given as the dict it converts to; a list goes through
\* dict(); a number has no __iter__ and gives {}.
converted(obj) ==
    CASE obj.t = "dict" -> obj
      [] obj.t = "list" -> dict_of(obj.items)
      [] OTHER -> EmptyDict

\* dict(obj) raises on a non-empty str (its items have one character) and
\* on a list with an item that is no pair.
convert_raises(obj) ==
    \/ obj.t = "str"
    \/ obj.t = "list" /\ \E i \in 1..Len(obj.items) : ~IsPair(obj.items[i])

\* Rule 1 on a truthy original_metadata: `field in original_metadata`
\* raises on a value that is no container; on a str or a list that holds
\* the field, original_metadata[field] raises; truthy annotations that
\* are no dict have no items().
metadata_raises(original_metadata) ==
    LET fields == {K_name, K_namespace, K_labels, K_annotations}
        m == original_metadata
    IN  CASE m.t = "dict" ->
                /\ K_annotations \in DOMAIN m.map
                /\ DocTruthy(m.map[K_annotations])
                /\ m.map[K_annotations].t # "dict"
          [] m.t = "str" -> \E f \in fields : InStr(f, m.str)
          [] m.t = "list" ->
                \E f \in fields : \E i \in 1..Len(m.items) : m.items[i] = DStr(f)
          [] OTHER -> TRUE

\* Rule 2 on truthy data: iterating raises on a value that is no
\* container, and a dict or a list is no key of a dict.
data_raises(data) ==
    CASE data.t = "dict" -> FALSE
      [] data.t = "str" -> FALSE
      [] data.t = "list" ->
            \E i \in 1..Len(data.items) : data.items[i].t \in {"dict", "list"}
      [] OTHER -> TRUE

\* The exceptions that leave clean_resource_object: there is no try in it.
clean_raises(obj, resource_type) ==
    /\ DocTruthy(obj)
    /\ \/ convert_raises(obj)
       \/ /\ HasKey(converted(obj), K_metadata)
          /\ DocTruthy(converted(obj).map[K_metadata])
          /\ metadata_raises(converted(obj).map[K_metadata])
       \/ /\ resource_type = S_secrets
          /\ HasKey(converted(obj), K_data)
          /\ DocTruthy(converted(obj).map[K_data])
          /\ data_raises(converted(obj).map[K_data])

\* What clean_resource_object returns when it does not raise.
clean_resource_object(v, obj, resource_type) ==
    IF ~DocTruthy(obj)
    THEN EmptyDict
    ELSE LET result == converted(obj)
             r1 == IF HasKey(result, K_metadata)
                      /\ DocTruthy(result.map[K_metadata])
                   THEN SetKey(result, K_metadata,
                               IF result.map[K_metadata].t = "dict"
                               THEN cleaned_metadata(v, result.map[K_metadata])
                               ELSE EmptyDict)
                   ELSE result
             r2 == IF resource_type = S_secrets
                      /\ HasKey(r1, K_data)
                      /\ DocTruthy(r1.map[K_data])
                   THEN SetKey(r1, K_data, redacted_data(r1.map[K_data]))
                   ELSE r1
         IN  _truncate_deep(r2, MaxLength)

----------------------------------------------------------------------------
(* The cluster behind the transport: what resource_api.get() answers.      *)

S_web == <<"w","e","b">>
S_void == <<"v","o","i","d">>
S_dns == <<"d","n","s">>
S_n1 == <<"n","1">>
S_db_creds == <<"d","b","-","c","r","e","d","s">>
S_app_web == <<"a","p","p","=","w","e","b">>
K_password == <<"p","a","s","s","w","o","r","d">>
K_token == <<"t","o","k","e","n">>
K_uid == <<"u","i","d">>
K_kind == <<"k","i","n","d">>
K_app == <<"a","p","p">>
S_hunter2 == <<"a","H","V","u","d","G","V","y","M","g","=","=">>
S_u1 == <<"u","-","1">>
S_cfg == <<"{","'","d","a","t","a","'",":","'","a","H","V","u","d","G","V","y","M","g","=","=","'","}">>
S_platform == <<"p","l","a","t","f","o","r","m">>

\* A string of n copies of the character c.
Rep(c, n) == [i \in 1..n |-> c]

\* A secret value longer than max_length.
LongSecretLen == MaxLength + 1

Meta(name, namespace, annotations) ==
    DDict((K_name :> DStr(name)) @@ (K_namespace :> DStr(namespace))
          @@ (K_uid :> DStr(S_u1))
          @@ (K_labels :> DDict(K_app :> DStr(S_web)))
          @@ (K_annotations :> DDict(annotations)))

SecretAnnotations ==
    (A_last_applied_full :> DStr(S_cfg)) @@ (A_team_owner :> DStr(S_platform))

SecretData ==
    DDict((K_password :> DStr(S_hunter2))
          @@ (K_token :> DStr(Rep("x", LongSecretLen))))

Obj(kind, name, namespace, annotations) ==
    DDict((K_kind :> DStr(kind)) @@ (K_metadata :> Meta(name, namespace, annotations)))

\* The objects stored in the cluster, in the order the API lists them.
ClusterObjects ==
    << [resource |-> PodsCore, namespace |-> S_default, name |-> S_web,
        labelled |-> TRUE,
        doc |-> Obj(S_pod, S_web, S_default, <<>>)],
       [resource |-> PodsCore, namespace |-> S_kube_system, name |-> S_dns,
        labelled |-> FALSE,
        doc |-> Obj(S_pod, S_dns, S_kube_system, <<>>)],
       [resource |-> PodsMetrics, namespace |-> S_default, name |-> S_web,
        labelled |-> TRUE,
        doc |-> Obj(S_metrics, S_web, S_default, <<>>)],
       [resource |-> NodesCore, namespace |-> NoneV, name |-> S_n1,
        labelled |-> FALSE,
        doc |-> Obj(S_nodes, S_n1, S_empty, <<>>)],
       [resource |-> NodesCustom, namespace |-> S_default, name |-> S_n1,
        labelled |-> FALSE,
        doc |-> Obj(S_example, S_n1, S_default, <<>>)],
       [resource |-> PodsCore, namespace |-> S_default, name |-> S_void,
        labelled |-> FALSE,
        doc |-> EmptyDict],
       [resource |-> SecretsCore, namespace |-> S_default, name |-> S_db_creds,
        labelled |-> FALSE,
        doc |-> SetKey(Obj(S_secret, S_db_creds, S_default, SecretAnnotations),
                       K_data, SecretData)] >>

\* A transport request: resource_api.get(name=, namespace=, label_selector=),
\* an HTTP GET.  A keyword that is not passed is NoneV.
Request(resource, name, namespace, label_selector) ==
    [verb |-> "get", resource |-> resource, name |-> name,
     namespace |-> namespace, label_selector |-> label_selector]

\* The request selects the stored object o.
Selects(req, o) ==
    /\ o.resource = req.resource
    /\ req.namespace # NoneV => o.namespace = req.namespace
    /\ req.name # NoneV => o.name = req.name
    /\ req.label_selector # NoneV => o.labelled

\* The stored objects a request selects.
Selected(req) ==
    LET sel(o) == Selects(req, o)
    IN  SelectSeq(cluster, sel)

\* The API server: what is stored once it has served req.  A get reads;
\* a delete removes what it selects.
served(objects, req) ==
    LET kept(o) == ~Selects(req, o)
    IN  IF req.verb = "delete" THEN SelectSeq(objects, kept) ELSE objects

\* What is stored once the requests have been served in order.
RECURSIVE stored_after(_, _)
stored_after(objects, requests) ==
    IF requests = <<>>
    THEN objects
    ELSE stored_after(served(objects, Head(requests)), Tail(requests))

----------------------------------------------------------------------------
(* The tool layer: authentication, parameter validation, the two tools.    *)

\* env.py: SECRET_KEY
SECRET_KEY == "secret_key"

NoToken == [present |-> FALSE, key |-> "", alg |-> ""]

Token(key, alg) == [present |-> TRUE, key |-> key, alg |-> alg]

Tokens ==
    {NoToken, Token(SECRET_KEY, "HS256"), Token("other_key", "HS256"),
     Token(SECRET_KEY, "none")}

\* A bearer token that verifies against the shared secret with HS256.
token_valid(token) ==
    token.present /\ token.key = SECRET_KEY /\ token.alg = "HS256"

\* mcp.py: JWTVerifier(public_key=SECRET_KEY, algorithm="HS256")
pkg_verify(token) == token_valid(token)

\* mcp.py: None for None and for "none", "null", "" after strip().lower()
validate_optional_string_param(value) ==
    IF value = NoneV
    THEN NoneV
    ELSE IF Lower(Strip(value)) \in {S_none, S_null, S_empty}
         THEN NoneV
         ELSE value

\* mcp.py: whether validate_required_string_param raises
required_param_invalid(value) == ~Truthy(value)

\* An error is the handler that raised the ToolError and its reason.
\*   by: "tool" (raised before the try), "api" (except ApiException),
\*       "unexpected" (except Exception), "auth" (the verifier)
Err(by, reason) == [by |-> by, reason |-> reason]

NoError == Err("none", "none")

NoList ==
    [group |-> NoneV, api_version |-> NoneV, name |-> NoneV,
     namespace |-> NoneV, names |-> <<>>]

\* The arguments of a call when they are not recorded.
NoArgs == [recorded |-> FALSE]

\* The record of a call: what it did and what it returned.
Idle ==
    [op |-> "none", args |-> NoArgs, token_ok |-> FALSE, key |-> NoneV,
     hit |-> FALSE,
     queried |-> FALSE, raised |-> FALSE, resolved |-> NoneDesc,
     requests |-> <<>>,
     outcome |-> "none", error |-> NoError, list_response |-> NoList,
     get_response |-> DNull]

Failed(call, by, reason) ==
    [call EXCEPT !.outcome = "error", !.error = Err(by, reason)]

\* extract_resource_info
extract_resource_info(resource_api, resource_type) ==
    [group |-> IF Truthy(resource_api.group) THEN resource_api.group ELSE S_empty,
     api_version |-> IF Truthy(resource_api.api_version)
                     THEN resource_api.api_version ELSE S_empty,
     name |-> IF Truthy(resource_api.name) THEN resource_api.name
              ELSE resource_type]

\* extract_resource_names
extract_resource_names(result) == [i \in 1..Len(result) |-> result[i].name]

\* The namespace the response of kubernetes_list reports.
pkg_actual_namespace(resource_api, namespace) ==
    IF resource_api.namespaced THEN namespace ELSE NoneV

legacy_actual_namespace(resource_api, namespace) == namespace

actual_namespace(v, resource_api, namespace) ==
    IF v = "pkg"
    THEN pkg_actual_namespace(resource_api, namespace)
    ELSE legacy_actual_namespace(resource_api, namespace)

\* The transport request of kubernetes_list.
list_request(resource_api, namespace, selector) ==
    IF resource_api.namespaced
    THEN Request(resource_api, NoneV, namespace, selector)
    ELSE Request(resource_api, NoneV, NoneV, selector)

\* Fault injection: kubernetes_get calling resource_api.delete().
deleting_get_request(resource_api, name, namespace) ==
    [Request(resource_api, name,
             IF resource_api.namespaced THEN namespace ELSE NoneV, NoneV)
        EXCEPT !.verb = "delete"]

\* The transport request of kubernetes_get.
get_request(resource_api, name, namespace) ==
    IF resource_api.namespaced
    THEN Request(resource_api, name, namespace, NoneV)
    ELSE Request(resource_api, name, NoneV, NoneV)

\* The type name kubernetes_get hands to clean_resource_object.
sanitizer_type(resource_api, resource_type) == resource_type

\* Fault injection: a tool that goes on when the resolver answered None,
\* and returns an empty placeholder instead of failing.
lenient_after_resolve(call, c, resource_type, r) ==
    [call EXCEPT !.key = resource_type,
                 !.hit = resource_type \in DOMAIN c,
                 !.queried = r.queried,
                 !.raised = r.raised,
                 !.resolved = r.result]

\* The call record once the resolver has answered r; `if not resource_api`
\* raises a ToolError inside the try, which `except Exception` catches.
after_resolve(call, c, resource_type, r) ==
    [call EXCEPT !.key = resource_type,
                 !.hit = resource_type \in DOMAIN c,
                 !.queried = r.queried,
                 !.raised = r.raised,
                 !.resolved = r.result,
                 !.outcome = IF r.result = NoneDesc THEN "error" ELSE @,
                 !.error = IF r.result = NoneDesc
                           THEN Err("unexpected", "resource type not found")
                           ELSE @]

\* The call record once the request req has been sent.
Sent(call, req) == [call EXCEPT !.requests = <<req>>]

\* The KubernetesListResponse built from the transport's result.
list_response(v, resource_api, resource_type, namespace, result) ==
    [group |-> extract_resource_info(resource_api, resource_type).group,
     api_version |->
         extract_resource_info(resource_api, resource_type).api_version,
     name |-> extract_resource_info(resource_api, resource_type).name,
     namespace |-> actual_namespace(v, resource_api, namespace),
     names |-> extract_resource_names(result)]

\* kubernetes_list from the transport call on; `call` is the resolved call,
\* tfail what raises ("none", "api": the transport an ApiException,
\* "other": the transport any other exception, "after": the code that
\* reads the transport's result, extract_resource_names or
\* clean_resource_object).
\* Fault injection: a list that answers an empty response when the
\* transport raises.
forgiving_list_result(v, call, req, tfail, resource_type, namespace) ==
    [call EXCEPT
       !.requests = <<req>>,
       !.outcome = "ok",
       !.list_response =
           list_response(v, call.resolved, resource_type, namespace,
                         IF tfail = "none" THEN Selected(req) ELSE <<>>)]

list_result(v, call, req, tfail, resource_type, namespace) ==
    IF tfail = "api" THEN Failed(Sent(call, req), "api", "Forbidden")
    ELSE IF tfail = "other" THEN Failed(Sent(call, req), "unexpected", "transport")
    ELSE IF tfail = "after" THEN Failed(Sent(call, req), "unexpected", "result")
    ELSE [call EXCEPT
            !.requests = <<req>>,
            !.outcome = "ok",
            !.list_response =
                list_response(v, call.resolved, resource_type, namespace,
                              Selected(req))]

\* kubernetes_list after the resolver: `call` is after_resolve's record.
list_body(v, call, tfail, resource_type, namespace, selector) ==
    IF call.outcome = "error"
    THEN call
    ELSE list_result(v, call, list_request(call.resolved, namespace, selector),
                     tfail, resource_type, namespace)

S_data_key == <<"d","a","t","a">>

\* str() of a cleaned result that is not a dict.
str_of(cleaned) ==
    CASE cleaned.t = "str" -> cleaned.str
      [] cleaned.t = "other" -> cleaned.repr
      [] OTHER -> S_empty

\* kubernetes_get after clean_resource_object: a dict is returned as it is,
\* None raises the "No data returned" ToolError (inside the try, so that
\* `except Exception` catches it), anything else is wrapped.
get_returned(call, cleaned_result) ==
    IF cleaned_result.t = "dict"
    THEN [call EXCEPT !.outcome = "ok", !.get_response = cleaned_result]
    ELSE IF cleaned_result.t = "null"
    THEN Failed(call, "unexpected", "no data")
    ELSE [call EXCEPT !.outcome = "ok",
                      !.get_response =
                          DDict(S_data_key :> DStr(str_of(cleaned_result)))]

\* kubernetes_get from the transport call on.
get_result(v, call, req, tfail, resource_type) ==
    IF tfail = "api" THEN Failed(Sent(call, req), "api", "Forbidden")
    ELSE IF tfail = "other" THEN Failed(Sent(call, req), "unexpected", "transport")
    ELSE IF tfail = "after" THEN Failed(Sent(call, req), "unexpected", "result")
    ELSE IF Selected(req) = <<>> THEN Failed(Sent(call, req), "api", "Not Found")
    ELSE get_returned(Sent(call, req),
                      clean_resource_object(
                          v, Selected(req)[1].doc,
                          sanitizer_type(call.resolved, resource_type)))

\* kubernetes_get after the resolver.
get_body(v, call, tfail, resource_type, name, namespace) ==
    IF call.outcome = "error"
    THEN call
    ELSE get_result(v, call, get_request(call.resolved, name, namespace),
                    tfail, resource_type)

\* The record of a call of tool op carrying token.
Called(op, token) == [Idle EXCEPT !.op = op, !.token_ok = token_valid(token)]

\* The verifier's rejection: the tool does not run.
Rejected(call) ==
    [call EXCEPT !.outcome = "rejected", !.error = Err("auth", "unauthorized")]

\* Fault injection: a namespace that is replaced only when it is empty
\* or None.
unchecked_namespace(namespace) ==
    IF Truthy(namespace) THEN namespace ELSE S_default

\* validate_optional_string_param(namespace, "namespace") or "default"
pkg_namespace(namespace) ==
    IF Truthy(validate_optional_string_param(namespace))
    THEN validate_optional_string_param(namespace)
    ELSE S_default

\* namespace or "default"
legacy_namespace(namespace) == IF Truthy(namespace) THEN namespace ELSE S_default

\* (resource_type or "pods").lower()
legacy_resource_type(resource_type) ==
    Lower(IF Truthy(resource_type) THEN resource_type ELSE S_pods)

\* A tool's outcome: the cache the resolver left and the call record.
Outcome(c, call) == [cache |-> c, call |-> call]

list_outcome(v, c, call, r, tfail, resource_type, namespace, selector) ==
    Outcome(r.cache,
            list_body(v, after_resolve(call, c, resource_type, r), tfail,
                      resource_type, namespace, selector))

get_outcome(v, c, call, r, tfail, resource_type, name, namespace) ==
    Outcome(r.cache,
            get_body(v, after_resolve(call, c, resource_type, r), tfail,
                     resource_type, name, namespace))

\* Fault injection: a kubernetes_list that hands resource_type to the
\* resolver as it was passed.
verbatim_kubernetes_list(c, all_resources, fails, tfail, token, resource_type, namespace, selector) ==
    IF ~pkg_verify(token)
    THEN Outcome(c, Rejected(Called("list", token)))
    ELSE IF required_param_invalid(resource_type)
    THEN Outcome(c, Failed(Called("list", token), "tool", "validation"))
    ELSE list_outcome("pkg", c, Called("list", token),
                      pkg_get_resource_api(c, all_resources, fails,
                                           resource_type),
                      tfail, resource_type, pkg_namespace(namespace),
                      validate_optional_string_param(selector))

\* mcp.py: kubernetes_list
pkg_kubernetes_list(c, all_resources, fails, tfail, token, resource_type, namespace, selector) ==
    IF ~pkg_verify(token)
    THEN Outcome(c, Rejected(Called("list", token)))
    ELSE IF required_param_invalid(resource_type)
    THEN Outcome(c, Failed(Called("list", token), "tool", "validation"))
    ELSE list_outcome("pkg", c, Called("list", token),
                      pkg_get_resource_api(c, all_resources, fails,
                                           Lower(resource_type)),
                      tfail, Lower(resource_type), pkg_namespace(namespace),
                      validate_optional_string_param(selector))

\* main.py: kubernetes_list; FastMCP("kubediag", stateless_http=True) has
\* no verifier, and the tool no selector parameter.
legacy_kubernetes_list(c, all_resources, fails, tfail, token, resource_type, namespace) ==
    list_outcome("legacy", c, Called("list", token),
                 legacy_get_resource_api(c, all_resources, fails,
                                         legacy_resource_type(resource_type)),
                 tfail, legacy_resource_type(resource_type),
                 legacy_namespace(namespace), NoneV)

\* mcp.py: kubernetes_get
pkg_kubernetes_get(c, all_resources, fails, tfail, token, resource_type, name, namespace) ==
    IF ~pkg_verify(token)
    THEN Outcome(c, Rejected(Called("get", token)))
    ELSE IF required_param_invalid(resource_type) \/ required_param_invalid(name)
    THEN Outcome(c, Failed(Called("get", token), "tool", "validation"))
    ELSE get_outcome("pkg", c, Called("get", token),
                     pkg_get_resource_api(c, all_resources, fails,
                                          Lower(resource_type)),
                     tfail, Lower(resource_type), name, pkg_namespace(namespace))

\* main.py: kubernetes_get
legacy_kubernetes_get(c, all_resources, fails, tfail, token, resource_type, name, namespace) ==
    get_outcome("legacy", c, Called("get", token),
                legacy_get_resource_api(c, all_resources, fails,
                                        legacy_resource_type(resource_type)),
                tfail, legacy_resource_type(resource_type), name,
                legacy_namespace(namespace))

----------------------------------------------------------------------------
(* main.py of the package: the login page route_index.                     *)

\* env.py: the defaults of PUBLIC_URL and CAS_URL.
PUBLIC_URL == "http://localhost:8000"
CAS_URL == "http://localhost:8000/cas"

\* The values the environment may give PUBLIC_URL and CAS_URL.
PublicUrls == {PUBLIC_URL, "https://kubediag.example"}
CasUrls == {CAS_URL, "https://sso.example/cas"}

\* The identity provider's answer to serviceValidate:
\*   "success": {"serviceResponse": {"authenticationSuccess": {"user": u}}}
\*   "failure": {"serviceResponse": {"authenticationFailure": ...}}
\*   "no_user": authenticationSuccess without user
\*   "no_service_response": a JSON object without serviceResponse
\*   "not_json": a body resp.json() cannot parse
\*   "unreachable": session.get raises
CasAnswer(kind, user) == [kind |-> kind, user |-> user]

NoAnswer == CasAnswer("none", NoneV)

S_alice == <<"a","l","i","c","e">>
S_bob == <<"b","o","b">>
S_carol == <<"c","a","r","o","l">>

CasAnswers ==
    {CasAnswer("success", u) : u \in {S_alice, S_bob, S_carol}}
        \cup {CasAnswer(k, NoneV) :
                k \in {"failure", "no_user", "no_service_response", "not_json",
                       "unreachable"}}

S_ST_1 == <<"S","T","-","1">>
S_ST_2 == <<"S","T","-","2">>
S_ST_3 == <<"S","T","-","3">>

\* The ticket query parameter of a visit.
Tickets == {NoneV, S_empty, S_ST_1, S_ST_2, S_ST_3}

\* int(time.time()) at the visit.
Times == {1, 2}

\* The responses of route_index: a redirect to a URL with query parameters,
\* the rendered page, or an exception leaving the handler.
RedirectResponse(url, service) ==
    [kind |-> "redirect", url |-> url, service |-> service]

TemplateResponse(user_id, jwt_token, mcp_url) ==
    [kind |-> "page", user_id |-> user_id, jwt_token |-> jwt_token,
     mcp_url |-> mcp_url]

Raised == [kind |-> "error"]

NoResponse == [kind |-> "none"]

\* session.get(f"{CAS_URL}/p3/serviceValidate", params={...})
ValidationCall(cas_url, service, ticket) ==
    [base |-> cas_url, path |-> "/p3/serviceValidate", service |-> service,
     ticket |-> ticket, format |-> "json"]

\* Fault injection: a parser that takes a response without the success
\* structure for an anonymous user.
anonymous_CASResponse(answer) ==
    IF answer.kind = "success"
    THEN [ok |-> TRUE, user |-> answer.user]
    ELSE [ok |-> TRUE, user |-> NoneV]

\* CASResponse(**await resp.json(content_type=None)) and
\* data.serviceResponse.authenticationSuccess.user: the user, or an exception.
CASResponse(answer) ==
    IF answer.kind = "success"
    THEN [ok |-> TRUE, user |-> answer.user]
    ELSE [ok |-> FALSE, user |-> NoneV]

\* Fault injection: a token that is not signed.
unsigned_encode(sub, iat) ==
    [present |-> TRUE, key |-> "", alg |-> "none", sub |-> sub, iat |-> iat]

\* jwt.encode({"sub": user_id, "iat": ...}, SECRET_KEY, algorithm="HS256")
jwt_encode(sub, iat) ==
    [present |-> TRUE, key |-> SECRET_KEY, alg |-> "HS256", sub |-> sub,
     iat |-> iat]

\* The page for a parsed validation response.
rendered(public_url, data, now) ==
    IF data.ok
    THEN TemplateResponse(data.user, jwt_encode(data.user, now), public_url)
    ELSE Raised

\* route_index: the validation calls made and the response.
route_index(public_url, cas_url, ticket, answer, now) ==
    IF ~Truthy(ticket)
    THEN [validations |-> <<>>,
          response |-> RedirectResponse(cas_url, public_url)]
    ELSE [validations |-> <<ValidationCall(cas_url, public_url, ticket)>>,
          response |-> rendered(public_url, CASResponse(answer), now)]

\* The login page before any visit, under a configuration.
SsoIdle(public_url, cas_url) ==
    [public_url |-> public_url, cas_url |-> cas_url, visited |-> FALSE,
     ticket |-> NoneV, answer |-> NoAnswer, validations |-> <<>>,
     response |-> NoResponse]

----------------------------------------------------------------------------
(* The state machine of the tool layer.                                    *)

\* The resource types the tools are called with.
ToolTypes == {S_pods, S_nodes, S_secrets, S_secret, S_PODS, S_cats, S_empty}

Namespaces == {NoneV, S_kube_system, S_None_sp, S_empty}

Selectors == {NoneV, S_app_web, S_null}

Names == {S_web, S_db_creds, S_n1, S_void, S_empty}

\* What goes wrong during a call: nothing, search() raising, the transport
\* raising an ApiException, the transport raising any other exception, the
\* code after the transport call raising.
Faults == {"none", "discovery", "api", "other", "after"}

ValidToken == Token(SECRET_KEY, "HS256")

ListCall(token, resource_type, namespace, selector, fault) ==
    [token |-> token, resource_type |-> resource_type,
     namespace |-> namespace, selector |-> selector, fault |-> fault]

\* The calls of kubernetes_list that are made: every type with every token,
\* with every fault, and with every namespace and selector.
ListCalls ==
    {ListCall(tok, t, NoneV, NoneV, "none") : tok \in Tokens, t \in ToolTypes}
    \cup {ListCall(ValidToken, t, NoneV, NoneV, f) : t \in ToolTypes, f \in Faults}
    \cup UNION {{ListCall(ValidToken, t, ns, sel, "none") :
                    t \in ToolTypes, ns \in Namespaces} : sel \in Selectors}

GetCall(token, resource_type, name, namespace, fault) ==
    [token |-> token, resource_type |-> resource_type, name |-> name,
     namespace |-> namespace, fault |-> fault]

\* The calls of kubernetes_get that are made.
GetCalls ==
    {GetCall(tok, t, S_db_creds, NoneV, "none") : tok \in Tokens, t \in ToolTypes}
    \cup {GetCall(ValidToken, t, S_db_creds, NoneV, f) :
             t \in ToolTypes, f \in Faults}
    \cup UNION {{GetCall(ValidToken, t, n, ns, "none") :
                    t \in ToolTypes, n \in Names} : ns \in Namespaces}

\* The sanitizer harness before any call: the raw object, the type string,
\* and the two functions' results once they have been applied.
SanIdle ==
    [obj |-> DNull, type |-> S_empty, cleaned |-> DNull, clean_done |-> FALSE,
     raised |-> FALSE, truncated |-> DNull, truncate_done |-> FALSE]

Init ==
    /\ variant \in {"pkg", "legacy"}
    /\ listing \in ToolListings
    /\ cache = <<>>
    /\ last = Idle
    /\ san = SanIdle
    /\ sso = SsoIdle(PUBLIC_URL, CAS_URL)
    /\ calls = NoCalls
    /\ cluster = ClusterObjects

Fits(c, max) == Cardinality(DOMAIN c) <= max

\* The discovery fault and the transport fault of a call.
DiscoveryFails(call) == call.fault = "discovery"

TransportFault(call) ==
    IF call.fault \in {"api", "other", "after"} THEN call.fault ELSE "none"

\* A call of the tool kubernetes_list.
KubernetesList(call) ==
    \E r \in {IF variant = "pkg"
              THEN pkg_kubernetes_list(cache, listing, DiscoveryFails(call),
                                       TransportFault(call), call.token,
                                       call.resource_type, call.namespace,
                                       call.selector)
              ELSE legacy_kubernetes_list(cache, listing, DiscoveryFails(call),
                                          TransportFault(call), call.token,
                                          call.resource_type, call.namespace)} :
        /\ Fits(r.cache, MaxToolCached)
        /\ cache' = r.cache
        /\ last' = r.call
        /\ cluster' = stored_after(cluster, r.call.requests)
        /\ UNCHANGED <<variant, listing, san, sso, calls>>

\* A call of the tool kubernetes_get.
KubernetesGet(call) ==
    \E r \in {IF variant = "pkg"
              THEN pkg_kubernetes_get(cache, listing, DiscoveryFails(call),
                                      TransportFault(call), call.token,
                                      call.resource_type, call.name,
                                      call.namespace)
              ELSE legacy_kubernetes_get(cache, listing, DiscoveryFails(call),
                                         TransportFault(call), call.token,
                                         call.resource_type, call.name,
                                         call.namespace)} :
        /\ Fits(r.cache, MaxToolCached)
        /\ cache' = r.cache
        /\ last' = r.call
        /\ cluster' = stored_after(cluster, r.call.requests)
        /\ UNCHANGED <<variant, listing, san, sso, calls>>

Next ==
    \/ \E call \in ListCalls : KubernetesList(call)
    \/ \E call \in GetCalls : KubernetesGet(call)

Spec == Init /\ [][Next]_vars

----------------------------------------------------------------------------
(* The resolver on its own: direct calls of get_resource_api.              *)

ResolveInit ==
    /\ variant \in {"pkg", "legacy"}
    /\ listing \in Listings
    /\ cache = <<>>
    /\ last = Idle
    /\ san = SanIdle
    /\ sso = SsoIdle(PUBLIC_URL, CAS_URL)
    /\ calls = NoCalls
    /\ cluster = ClusterObjects

\* A call of get_resource_api(resource_type).
Resolve(resource_type, fails) ==
    \E r \in {get_resource_api(variant, cache, listing, fails, resource_type)} :
        /\ Fits(r.cache, MaxCached)
        /\ cache' = r.cache
        /\ last' = [Idle EXCEPT !.op = "resolve",
                                !.key = resource_type,
                                !.hit = resource_type \in DOMAIN cache,
                                !.queried = r.queried,
                                !.raised = r.raised,
                                !.resolved = r.result,
                                !.outcome = "ok"]
        /\ UNCHANGED <<variant, listing, cluster, san, sso, calls>>

ResolveNext == \E t \in InputTypes, f \in BOOLEAN : Resolve(t, f)

ResolveSpec == ResolveInit /\ [][ResolveNext]_vars

----------------------------------------------------------------------------
(* The resolver called from several threads: a call is the cache test,     *)
(* search() with the choice made from its answer, and the cache write,     *)
(* and the threads interleave between these steps.                         *)

RaceTypes == {S_pods, S_cats}

RaceInit ==
    /\ variant \in {"pkg", "legacy"}
    /\ listing \in ToolListings
    /\ cache = <<>>
    /\ last = Idle
    /\ san = SanIdle
    /\ sso = SsoIdle(PUBLIC_URL, CAS_URL)
    /\ calls = NoCalls
    /\ cluster = ClusterObjects

\* Thread i enters get_resource_api(resource_type).
RaceBegin(i, resource_type) ==
    /\ calls[i].pc \in {"idle", "done"}
    /\ calls' = [calls EXCEPT ![i] = [IdleCall EXCEPT !.pc = "check",
                                                      !.key = resource_type]]
    /\ UNCHANGED <<variant, listing, cluster, cache, last, san, sso>>

\* if resource_type in _resource_api_cache: return the cached value.
RaceCheck(i) ==
    /\ calls[i].pc = "check"
    /\ calls' = [calls EXCEPT ![i] =
                    IF calls[i].key \in DOMAIN cache
                    THEN [@ EXCEPT !.pc = "done",
                                   !.result = cache[calls[i].key]]
                    ELSE [@ EXCEPT !.pc = "search"]]
    /\ UNCHANGED <<variant, listing, cluster, cache, last, san, sso>>

\* search(), which raises or answers, and the choice among the matches.
RaceSearch(i, fails) ==
    /\ calls[i].pc = "search"
    /\ \E r \in {discover(variant, <<>>, listing, fails, calls[i].key)} :
          calls' = [calls EXCEPT ![i] = [@ EXCEPT !.pc = "store",
                                                   !.found = r.result,
                                                   !.queried = TRUE,
                                                   !.raised = r.raised]]
    /\ UNCHANGED <<variant, listing, cluster, cache, last, san, sso>>

\* _resource_api_cache[resource_type] = ..., and the return.
RaceStore(i) ==
    /\ calls[i].pc = "store"
    /\ Fits(Put(cache, calls[i].key, calls[i].found), MaxCached)
    /\ cache' = Put(cache, calls[i].key, calls[i].found)
    /\ calls' = [calls EXCEPT ![i] = [@ EXCEPT !.pc = "done",
                                               !.result = calls[i].found]]
    /\ UNCHANGED <<variant, listing, cluster, last, san, sso>>

RaceNext ==
    \/ \E i \in Racers, t \in RaceTypes : RaceBegin(i, t)
    \/ \E i \in Racers : RaceCheck(i)
    \/ \E i \in Racers, fails \in BOOLEAN : RaceSearch(i, fails)
    \/ \E i \in Racers : RaceStore(i)

RaceSpec == RaceInit /\ [][RaceNext]_vars

----------------------------------------------------------------------------
(* One request against a fresh process, its arguments recorded.            *)

\* kubernetes_list as the running entry point defines it.
kubernetes_list(v, c, all_resources, call) ==
    IF v = "pkg"
    THEN pkg_kubernetes_list(c, all_resources, DiscoveryFails(call),
                             TransportFault(call), call.token,
                             call.resource_type, call.namespace, call.selector)
    ELSE legacy_kubernetes_list(c, all_resources, DiscoveryFails(call),
                                TransportFault(call), call.token,
                                call.resource_type, call.namespace)

\* kubernetes_get as the running entry point defines it.
kubernetes_get(v, c, all_resources, call) ==
    IF v = "pkg"
    THEN pkg_kubernetes_get(c, all_resources, DiscoveryFails(call),
                            TransportFault(call), call.token,
                            call.resource_type, call.name, call.namespace)
    ELSE legacy_kubernetes_get(c, all_resources, DiscoveryFails(call),
                               TransportFault(call), call.token,
                               call.resource_type, call.name, call.namespace)

\* The first kubernetes_list request of the process.
ListRequest(call) ==
    /\ last = Idle
    /\ \E r \in {kubernetes_list(variant, cache, listing, call)} :
          /\ cache' = r.cache
          /\ last' = [r.call EXCEPT !.args = call]
          /\ cluster' = stored_after(cluster, r.call.requests)
    /\ UNCHANGED <<variant, listing, san, sso, calls>>

\* The first kubernetes_get request of the process.
GetRequest(call) ==
    /\ last = Idle
    /\ \E r \in {kubernetes_get(variant, cache, listing, call)} :
          /\ cache' = r.cache
          /\ last' = [r.call EXCEPT !.args = call]
          /\ cluster' = stored_after(cluster, r.call.requests)
    /\ UNCHANGED <<variant, listing, san, sso, calls>>

CallNext ==
    \/ \E call \in ListCalls : ListRequest(call)
    \/ \E call \in GetCalls : GetRequest(call)

CallSpec == Init /\ [][CallNext]_vars

----------------------------------------------------------------------------
(* The login page on its own: visits of route_index.                       *)

SsoInit ==
    /\ variant = "pkg"
    /\ listing = <<>>
    /\ cache = <<>>
    /\ last = Idle
    /\ san = SanIdle
    /\ \E p \in PublicUrls, c \in CasUrls : sso = SsoIdle(p, c)
    /\ calls = NoCalls
    /\ cluster = ClusterObjects

\* A visit of the root page with a ticket parameter; answer is what the
\* identity provider answers if it is asked.
Visit(ticket, answer, now) ==
    /\ \E r \in {route_index(sso.public_url, sso.cas_url, ticket, answer, now)} :
          sso' = [sso EXCEPT !.visited = TRUE,
                             !.ticket = ticket,
                             !.answer = IF r.validations = <<>>
                                        THEN NoAnswer ELSE answer,
                             !.validations = r.validations,
                             !.response = r.response]
    /\ UNCHANGED <<variant, listing, cluster, cache, last, san, calls>>

SsoNext ==
    \E ticket \in Tickets, answer \in CasAnswers, now \in Times :
        Visit(ticket, answer, now)

SsoSpec == SsoInit /\ [][SsoNext]_vars

----------------------------------------------------------------------------
(* The sanitizer on its own: clean_resource_object and _truncate_deep      *)
(* applied to raw objects.                                                 *)

S_o == <<"o">>

\* String lengths around max_length, up to MaxStrLen.
StrLens == {0, 1, MaxLength - 1, MaxLength, MaxLength + 1, MaxStrLen}

\* A list with strings at two depths and a number.
NestedList ==
    DList(<<DStr(Rep("x", MaxStrLen)), DInt(7), DStr(Rep("x", MaxLength)),
            DList(<<DStr(Rep("x", MaxLength + 1))>>)>>)

\* A dict with a long string two levels down.
NestedDict == DDict(K_app :> DDict(K_name :> DStr(Rep("x", MaxLength + 1))))

\* The values of the field "kind" of a raw object.
FieldValues ==
    {DStr(Rep("x", n)) : n \in StrLens}
        \cup {DInt(0), DInt(7), DBool(TRUE), DNull, DOther(S_o),
              DOther(Rep("o", MaxLength + 1)), NestedList, NestedDict}

\* The data mappings of a raw object: the API server answers a secret's
\* data as a mapping.
DataMaps ==
    { <<>>,
      K_password :> DStr(S_hunter2),
      (K_password :> DStr(S_hunter2)) @@ (K_token :> DStr(Rep("k", MaxStrLen))),
      (K_password :> DInt(7)) @@ (K_token :> DList(<<DStr(S_hunter2)>>))
          @@ (K_app :> DNull) }

LongAnnotations == A_team_owner :> DStr(Rep("x", MaxLength + 1))

\* Annotations that are all dropped by both entry points.
DeniedAnnotations == A_last_applied_full :> DStr(S_cfg)

\* Annotations written by controllers and the package manager.
ControllerAnnotations ==
    (A_revision :> DStr(S_u1)) @@ (A_helm :> DStr(S_web))
        @@ (A_team_owner :> DStr(S_platform))

\* A metadata with a name and a uid only.
PartialMeta == DDict((K_name :> DStr(S_web)) @@ (K_uid :> DStr(S_u1)))

Metadatas ==
    { DDict(<<>>),
      PartialMeta,
      Meta(S_db_creds, S_default, <<>>),
      Meta(S_db_creds, S_default, SecretAnnotations),
      Meta(S_db_creds, S_default, LongAnnotations),
      Meta(S_db_creds, S_default, DeniedAnnotations),
      Meta(S_db_creds, S_default, ControllerAnnotations) }

\* Raw objects of other shapes: values that are no mapping, and mappings
\* whose metadata, annotations or data are no mapping.
OddObjects ==
    { DStr(<<>>), DList(<<>>), DInt(0), DBool(FALSE),
      DStr(S_web), DInt(7), DBool(TRUE),
      DList(<<DInt(7)>>), DList(<<DStr(<<"a", "b">>)>>),
      DDict(K_metadata :> DInt(7)),
      DDict(K_metadata :> DStr(S_web)),
      DDict(K_metadata :> DStr(K_namespace)),
      DDict(K_metadata :> DList(<<DStr(K_name)>>)),
      DDict(K_metadata :> DDict(K_annotations :> DStr(S_cfg))),
      DDict(K_data :> DInt(7)),
      DDict(K_data :> DList(<<DStr(S_web)>>)) }

\* The raw objects: None, {}, dicts with a field, with or without
\* metadata, with or without data, and the objects of other shapes.
RawObjects ==
    {DNull, EmptyDict}
        \cup OddObjects
        \cup { DDict((K_kind :> e) @@ m @@ d) :
                 e \in FieldValues,
                 m \in {<<>>} \cup {K_metadata :> x : x \in Metadatas},
                 d \in {<<>>} \cup {K_data :> DDict(x) : x \in DataMaps} }

SanTypes == {S_secrets, S_secret, S_pods}

SanInit ==
    /\ variant \in {"pkg", "legacy"}
    /\ listing = <<>>
    /\ cache = <<>>
    /\ last = Idle
    /\ sso = SsoIdle(PUBLIC_URL, CAS_URL)
    /\ calls = NoCalls
    /\ cluster = ClusterObjects
    /\ \E o \in RawObjects, t \in SanTypes :
          san = [SanIdle EXCEPT !.obj = o, !.type = t]

\* clean_resource_object(obj, resource_type)
Clean ==
    /\ ~san.clean_done
    /\ san' = IF clean_raises(san.obj, san.type)
               THEN [san EXCEPT !.raised = TRUE, !.clean_done = TRUE]
               ELSE [san EXCEPT
                       !.cleaned =
                           clean_resource_object(variant, san.obj, san.type),
                       !.clean_done = TRUE]
    /\ UNCHANGED <<variant, listing, cluster, cache, last, sso, calls>>

\* _truncate_deep(obj)
Truncate ==
    /\ ~san.truncate_done
    /\ san' = [san EXCEPT !.truncated = _truncate_deep(san.obj, MaxLength),
                          !.truncate_done = TRUE]
    /\ UNCHANGED <<variant, listing, cluster, cache, last, sso, calls>>

SanNext == Clean \/ Truncate

SanSpec == SanInit /\ [][SanNext]_vars

----------------------------------------------------------------------------
(* Properties of the resolver, checked under ResolveSpec.                  *)

\* The singular/plural counterpart of a type string: a trailing "s" removed
\* or added.
Counterpart(t) ==
    IF EndsWith(t, S_s) THEN SubSeq(t, 1, Len(t) - 1) ELSE t \o S_s

\* The result of resolving t2 right after t, discovery not failing.
ResolvedAfter(v, c, all_resources, t, t2) ==
    get_resource_api(v, get_resource_api(v, c, all_resources, FALSE, t).cache,
                     all_resources, FALSE, t2).result

\* C1: for every discovery listing and every lower-case type string t, with
\* neither t nor its singular/plural counterpart cached yet, resolving t and
\* then the counterpart gives the same descriptor (or the same absence).
C1_SingularPluralAgree ==
    \A t \in InputTypes :
        (/\ t # S_empty
         /\ Lower(t) = t
         /\ t \notin DOMAIN cache
         /\ Counterpart(t) \notin DOMAIN cache)
        => ResolvedAfter(variant, cache, listing, t, Counterpart(t))
             = get_resource_api(variant, cache, listing, FALSE, t).result

\* The candidates the running resolver matches for a type string.
Matching(v, all_resources, resource_type) ==
    IF v = "pkg"
    THEN pkg_matching_resources(all_resources, resource_type)
    ELSE legacy_matching_resources(all_resources, resource_type)

\* The smallest number of a non-empty set of numbers.
Least(S) == CHOOSE i \in S : \A j \in S : i <= j

\* The ordered preference among candidates m: namespaced kinds first, then
\* the empty (core) group, then discovery order.
OrderedPreference(m) ==
    LET namespaced == {i \in 1..Len(m) : m[i].namespaced}
        pool == IF namespaced # {} THEN namespaced ELSE 1..Len(m)
        core == {i \in pool : m[i].group = S_empty}
    IN  m[Least(IF core # {} THEN core ELSE pool)]

\* C4: a discovery that finds candidates for the type selects by the ordered
\* preference: a namespaced kind if any, among those the core group, else
\* the first in discovery order.
C4_OrderedPreference ==
    (/\ last.op = "resolve"
     /\ last.queried
     /\ ~last.raised
     /\ Matching(variant, listing, last.key) # <<>>)
    => last.resolved = OrderedPreference(Matching(variant, listing, last.key))

\* C5: a call of the resolver on a type string that already has a cache
\* entry returns that entry (a descriptor or None), queries discovery no
\* further and leaves the cache as it is.
C5_CachedStep ==
    \A t \in DOMAIN cache :
        (last'.op = "resolve" /\ last'.key = t)
        => /\ last'.resolved = cache[t]
           /\ ~last'.queried
           /\ last'.hit
           /\ cache' = cache

C5_CacheIdempotent == [][C5_CachedStep]_vars

\* A second type string is cached, and a call hits a cached descriptor.
C5_Witness ==
    /\ last.op = "resolve"
    /\ last.hit
    /\ ~last.queried
    /\ last.resolved # NoneDesc
    /\ last.resolved = cache[last.key]
    /\ Cardinality(DOMAIN cache) = MaxCached

----------------------------------------------------------------------------
(* Properties of the tools, checked under Spec.                            *)

\* C2: a successful get of an object whose resolved type is "secrets"
\* returns a data mapping in which every value is the redaction marker.
C2_SecretsAlwaysRedacted ==
    (/\ last.op = "get"
     /\ last.outcome = "ok"
     /\ last.resolved.name = S_secrets
     /\ HasKey(last.get_response, K_data)
     /\ last.get_response.map[K_data].t = "dict")
    => \A key \in DOMAIN last.get_response.map[K_data].map :
          last.get_response.map[K_data].map[key] = DStr(S_REDACTED)

\* C6: a tool call without a valid HS256 bearer token is rejected: it reads
\* no cache entry, queries no discovery and sends no transport request.
C6_NoToolWithoutToken ==
    (last.op \in {"list", "get"} /\ ~last.token_ok)
    => /\ last.outcome = "rejected"
       /\ ~last.hit
       /\ ~last.queried
       /\ last.requests = <<>>

\* No well-formed kind of the listing is named t or its singular/plural
\* counterpart.
NoKind(all_resources, t) ==
    \A i \in 1..Len(all_resources) :
        \/ all_resources[i].malformed
        \/ Lower(all_resources[i].name) \notin {t, Counterpart(t)}

\* C7: a list call that passes authentication and validation for a type
\* that is not in the cluster fails with the not-found condition and sends
\* no transport request, whatever the cache holds and whatever call came
\* before.
C7_ListNotFoundFails ==
    (/\ last.op = "list"
     /\ last.outcome # "rejected"
     /\ last.key # NoneV
     /\ NoKind(listing, last.key))
    => /\ last.outcome = "error"
       /\ last.error.reason = "resource type not found"
       /\ last.resolved = NoneDesc
       /\ last.requests = <<>>
       /\ last.list_response = NoList

\* A list call for a missing type answered from a cached None.
C7_Witness ==
    /\ last.op = "list"
    /\ last.hit
    /\ last.key \in DOMAIN cache
    /\ NoKind(listing, last.key)
    /\ listing # <<>>
    /\ last.outcome = "error"
    /\ last.error.reason = "resource type not found"

\* C8: a successful list of a cluster-scoped type reports no namespace, and
\* its transport request carries none.
C8_ClusterScopedNoNamespace ==
    (/\ last.op = "list"
     /\ last.outcome = "ok"
     /\ ~last.resolved.namespaced)
    => /\ last.list_response.namespace = NoneV
       /\ last.requests[1].namespace = NoneV

----------------------------------------------------------------------------
(* Properties of the sanitizer, checked under SanSpec.                     *)

\* C3: for a raw object whose data is a mapping, the sanitizer called with
\* "secrets" returns a data mapping with the same keys, every value the
\* marker "REDACTED", whatever the length or type of the original value,
\* the empty mapping included.
C3_SecretsDataRedacted ==
    (/\ san.clean_done
     /\ san.type = S_secrets
     /\ HasKey(san.obj, K_data)
     /\ san.obj.map[K_data].t = "dict")
    => /\ HasKey(san.cleaned, K_data)
       /\ san.cleaned.map[K_data].t = "dict"
       /\ DOMAIN san.cleaned.map[K_data].map = DOMAIN san.obj.map[K_data].map
       /\ \A key \in DOMAIN san.obj.map[K_data].map :
             san.cleaned.map[K_data].map[key] = DStr(S_REDACTED)

\* A secret with three data values, none of them a string, has been cleaned.
C3_Witness ==
    /\ san.clean_done
    /\ san.type = S_secrets
    /\ HasKey(san.obj, K_data)
    /\ san.obj.map[K_data].t = "dict"
    /\ DOMAIN san.obj.map[K_data].map = {K_password, K_token, K_app}
    /\ san.obj.map[K_data].map[K_password] = DInt(7)
    /\ san.cleaned.map[K_data].map[K_password] = DStr(S_REDACTED)

\* The number a sequence of decimal digits writes.
RECURSIVE DecimalValue(_)
DecimalValue(digits) ==
    IF digits = <<>>
    THEN 0
    ELSE 10 * DecimalValue(SubSeq(digits, 1, Len(digits) - 1))
           + (CHOOSE n \in 0..9 : Digits[n + 1] = digits[Len(digits)])

IsDigit(c) == \E n \in 1..10 : Digits[n] = c

\* The text note contains the decimal number L, not as part of a longer
\* number.
MentionsLength(note, L) ==
    \E i \in 1..Len(note) : \E j \in i..Len(note) :
        /\ \A k \in i..j : IsDigit(note[k])
        /\ i = 1 \/ ~IsDigit(note[i - 1])
        /\ j = Len(note) \/ ~IsDigit(note[j + 1])
        /\ DecimalValue(SubSeq(note, i, j)) = L

\* The length rule on one string: above MaxLength the first MaxLength
\* characters and a suffix that tells the original length, else the string.
LengthRule(original, s) ==
    IF Len(original) > MaxLength
    THEN /\ Len(s) > MaxLength
         /\ SubSeq(s, 1, MaxLength) = SubSeq(original, 1, MaxLength)
         /\ MentionsLength(SubSeq(s, MaxLength + 1, Len(s)), Len(original))
    ELSE s = original

\* out is the document in with the length rule applied to every leaf.
RECURSIVE TruncatedAs(_, _)
TruncatedAs(in, out) ==
    CASE in.t = "str" -> out.t = "str" /\ LengthRule(in.str, out.str)
      [] in.t = "dict" ->
            /\ out.t = "dict"
            /\ DOMAIN out.map = DOMAIN in.map
            /\ \A k \in DOMAIN in.map : TruncatedAs(in.map[k], out.map[k])
      [] in.t = "list" ->
            /\ out.t = "list"
            /\ Len(out.items) = Len(in.items)
            /\ \A i \in 1..Len(in.items) : TruncatedAs(in.items[i], out.items[i])
      [] in.t \in {"int", "bool", "null"} -> out = in
      [] OTHER -> out.t = "str" /\ LengthRule(in.repr, out.str)

\* C9: truncation replaces every string leaf longer than 256 characters by
\* its first 256 characters and a suffix with the original length, leaves
\* shorter strings as they are, keeps the shape of mappings and sequences
\* and passes numbers, booleans and null through.
\* The same holds of a field the sanitizer's other rules leave alone.
C9_Truncation ==
    /\ san.truncate_done => TruncatedAs(san.obj, san.truncated)
    /\ (san.clean_done /\ HasKey(san.obj, K_kind))
       => /\ HasKey(san.cleaned, K_kind)
          /\ TruncatedAs(san.obj.map[K_kind], san.cleaned.map[K_kind])

\* A list with strings of MaxLength, MaxLength + 1 and MaxStrLen characters
\* at two depths has been truncated.
C9_Witness ==
    /\ san.truncate_done
    /\ HasKey(san.obj, K_kind)
    /\ san.obj.map[K_kind] = NestedList
    /\ san.truncated.map[K_kind].items[3] = DStr(Rep("x", MaxLength))
    /\ Len(san.truncated.map[K_kind].items[4].items[1].str) > MaxLength
    /\ Len(san.truncated.map[K_kind].items[1].str) < MaxStrLen

\* The strings at the leaves of a document; a leaf of another type counts
\* with its str().
RECURSIVE StrLeaves(_)
StrLeaves(d) ==
    CASE d.t = "str" -> {d.str}
      [] d.t = "other" -> {d.repr}
      [] d.t = "dict" -> UNION {StrLeaves(d.map[k]) : k \in DOMAIN d.map}
      [] d.t = "list" -> UNION {StrLeaves(d.items[i]) : i \in 1..Len(d.items)}
      [] OTHER -> {}

\* p occurs in s as a run of consecutive characters.
Contains(s, p) ==
    \E i \in 1..(Len(s) - Len(p) + 1) : SubSeq(s, i, i + Len(p) - 1) = p

\* The original payload of a secret: the non-empty strings in its data,
\* other than the marker itself.
Payload(obj) ==
    IF HasKey(obj, K_data)
    THEN StrLeaves(obj.map[K_data]) \ {S_empty, S_REDACTED}
    ELSE {}

\* No string of the output contains a string of the original payload.
NoPayload ==
    (san.clean_done /\ san.type = S_secrets)
    => \A s \in StrLeaves(san.cleaned) : \A p \in Payload(san.obj) :
          ~Contains(s, p)

\* The length of the suffix at the threshold: the suffix of a string of
\* MaxLength + 1 characters.
FixedSuffixLength ==
    Len(truncated_text(Rep("x", MaxLength + 1), MaxLength)) - MaxLength

\* C10 as stated: no string of a sanitizer output is longer than the
\* threshold plus one fixed suffix length, and the output of a secret
\* contains no original payload.
C10_FixedSuffixBound ==
    /\ san.clean_done
       => \A s \in StrLeaves(san.cleaned) :
             Len(s) <= MaxLength + FixedSuffixLength
    /\ NoPayload

\* The number of decimal digits of a natural number.
RECURSIVE NumDigits(_)
NumDigits(n) == IF n < 10 THEN 1 ELSE 1 + NumDigits(n \div 10)

\* The length of the longest string leaf of a document.
Longest(d) ==
    IF StrLeaves(d) = {}
    THEN 0
    ELSE CHOOSE n \in {Len(s) : s \in StrLeaves(d)} :
            \A s \in StrLeaves(d) : Len(s) <= n

\* The suffix "... [truncated, original length: N]" without the digits of N.
SuffixFrame == Len(S_truncated_prefix) + Len(S_truncated_suffix)

\* C10: no string of a sanitizer output is longer than the threshold plus
\* the suffix, whose length is that of its fixed text plus the number of
\* decimal digits of the original length; and the output of a secret
\* contains no original payload.
C10_OutputBound ==
    /\ san.clean_done
       => \A s \in StrLeaves(san.cleaned) :
             Len(s) <= MaxLength + SuffixFrame + NumDigits(Longest(san.obj))
    /\ NoPayload

\* A secret with a payload of MaxStrLen characters and a field of MaxStrLen
\* characters has been cleaned: the field's suffix is one character longer
\* than the suffix at the threshold.
C10_Witness ==
    /\ san.clean_done
    /\ san.type = S_secrets
    /\ Rep("k", MaxStrLen) \in Payload(san.obj)
    /\ \E s \in StrLeaves(san.cleaned) :
          Len(s) = MaxLength + SuffixFrame + NumDigits(MaxStrLen)
    /\ NumDigits(MaxStrLen) > NumDigits(MaxLength + 1)

\* The metadata of a raw object is present and non-empty.
HasMetadata(obj) ==
    /\ HasKey(obj, K_metadata)
    /\ obj.map[K_metadata].t = "dict"
    /\ DocTruthy(obj.map[K_metadata])

\* C11: the sanitized metadata of an object with a non-empty metadata,
\* when the sanitizer returns, has no key outside name, namespace, labels
\* and annotations, and has name, namespace and labels exactly when the
\* original has them.
C11_MetadataFiltered ==
    (san.clean_done /\ ~san.raised /\ HasMetadata(san.obj))
    => /\ HasKey(san.cleaned, K_metadata)
       /\ san.cleaned.map[K_metadata].t = "dict"
       /\ DOMAIN san.cleaned.map[K_metadata].map
             \subseteq {K_name, K_namespace, K_labels, K_annotations}
       /\ \A k \in {K_name, K_namespace, K_labels} :
             k \in DOMAIN san.cleaned.map[K_metadata].map
                <=> k \in DOMAIN san.obj.map[K_metadata].map

\* A metadata with a uid and a name but no namespace and no labels has been
\* cleaned: the name is kept, the uid is gone.
C11_Witness ==
    /\ san.clean_done
    /\ HasMetadata(san.obj)
    /\ san.obj.map[K_metadata] = PartialMeta
    /\ DOMAIN san.cleaned.map[K_metadata].map = {K_name}

\* The denylist of annotation keys: vendor tooling prefixes, change-tracking
\* revision markers, controller prefixes and package-manager prefixes.
Denylisted(key) ==
    \/ \E prefix \in {A_kubectl, A_kubernetes, A_deployment_k8s, A_pod_template,
                      A_autoscaling, A_control_plane, A_deployment, A_job,
                      A_batch, A_meta_helm, A_helm} : StartsWith(key, prefix)
    \/ key \in {A_last_applied_full, A_revision}
    \/ EndsWith(key, A_last_applied)

\* The annotations of a raw object are a non-empty mapping.
HasAnnotations(obj) ==
    /\ HasMetadata(obj)
    /\ HasKey(obj.map[K_metadata], K_annotations)
    /\ obj.map[K_metadata].map[K_annotations].t = "dict"
    /\ DocTruthy(obj.map[K_metadata].map[K_annotations])

\* The annotation keys of a raw object that are not on the denylist.
Retained(obj) ==
    {key \in DOMAIN obj.map[K_metadata].map[K_annotations].map :
        ~Denylisted(key)}

\* C12: the sanitized annotations are the original ones without the keys on
\* the denylist, every other key with its value (under the length rule);
\* the annotations key is left out when no key remains.
C12_AnnotationsFiltered ==
    (san.clean_done /\ HasAnnotations(san.obj))
    => IF Retained(san.obj) = {}
       THEN ~HasKey(san.cleaned.map[K_metadata], K_annotations)
       ELSE /\ HasKey(san.cleaned.map[K_metadata], K_annotations)
            /\ DOMAIN san.cleaned.map[K_metadata].map[K_annotations].map
                  = Retained(san.obj)
            /\ \A key \in Retained(san.obj) :
                  TruncatedAs(
                      san.obj.map[K_metadata].map[K_annotations].map[key],
                      san.cleaned.map[K_metadata].map[K_annotations].map[key])

----------------------------------------------------------------------------
(* Properties of a request and its arguments, checked under CallSpec.      *)

\* An optional string argument that stands for absence: None, or "none",
\* "null", "" whatever the case and the surrounding whitespace.
Absent(value) ==
    value = NoneV \/ Lower(Strip(value)) \in {S_none, S_null, S_empty}

\* The value the transport gets for an optional argument: the default for an
\* absent one, else the argument itself.
Normalized(value, default) == IF Absent(value) THEN default ELSE value

\* C13: in the transport request of a tool call, the namespace of a
\* namespaced kind is the namespace argument, or "default" when the argument
\* is absent, and the label selector is the selector argument, or none when
\* it is absent: "none", "null" and "" never reach the transport.
C13_OptionalNormalized ==
    (last.op \in {"list", "get"} /\ last.requests # <<>>)
    => /\ last.resolved.namespaced
          => last.requests[1].namespace
               = Normalized(last.args.namespace, S_default)
       /\ (last.op = "list" /\ variant = "pkg")
          => last.requests[1].label_selector
               = Normalized(last.args.selector, NoneV)

\* C14: a get whose transport result sanitizes to an empty or non-mapping
\* value ends in the "no data" failure: a successful get returns a
\* non-empty mapping.
C14_NoDataFails ==
    /\ (last.op = "get" /\ last.outcome = "ok")
       => last.get_response.t = "dict" /\ DocTruthy(last.get_response)
    /\ (/\ last.op = "get"
        /\ last.requests # <<>>
        /\ last.args.fault = "none"
        /\ Selected(last.requests[1]) # <<>>
        /\ ~DocTruthy(Selected(last.requests[1])[1].doc))
       => last.outcome = "error" /\ last.error.reason = "no data"

\* C15: a list or get that passes authentication and validation and meets
\* an error (discovery, the transport, the code after it) or asks for an
\* object that is not there, ends in a failure with a reason, raised by one
\* of the tool's handlers, and returns no response.
C15_ErrorsAreFailures ==
    (/\ last.op \in {"list", "get"}
     /\ last.key # NoneV
     /\ \/ last.args.fault # "none"
        \/ /\ last.op = "get"
           /\ last.requests # <<>>
           /\ Selected(last.requests[1]) = <<>>)
    => /\ last.outcome = "error"
       /\ last.error.by \in {"api", "unexpected"}
       /\ last.error.reason # "none"
       /\ last.list_response = NoList
       /\ last.get_response = DNull

\* A list whose transport request raised an exception that is not an
\* ApiException has failed in the generic handler.
C15_Witness ==
    /\ last.op = "list"
    /\ last.args.fault = "other"
    /\ last.requests # <<>>
    /\ last.outcome = "error"
    /\ last.error.by = "unexpected"

----------------------------------------------------------------------------
(* Properties of the login page, checked under SsoSpec.                    *)

\* C16: a visit without a ticket is answered by a redirect to the identity
\* provider with the configured public URL as service, without a validation
\* call and without a token; a visit with a ticket the provider validates
\* makes one validation call with that service URL and that ticket, and is
\* answered by a page with a token signed with the shared secret under
\* HS256 whose subject is the validated user.
C16_SsoBridge ==
    /\ (sso.visited /\ ~Truthy(sso.ticket))
       => /\ sso.response
               = [kind |-> "redirect", url |-> sso.cas_url,
                  service |-> sso.public_url]
          /\ sso.validations = <<>>
    /\ (sso.visited /\ Truthy(sso.ticket) /\ sso.answer.kind = "success")
       => /\ Len(sso.validations) = 1
          /\ sso.validations[1].base = sso.cas_url
          /\ sso.validations[1].service = sso.public_url
          /\ sso.validations[1].ticket = sso.ticket
          /\ sso.response.kind = "page"
          /\ token_valid(sso.response.jwt_token)
          /\ sso.response.jwt_token.sub = sso.answer.user
          /\ sso.response.user_id = sso.answer.user

\* A visit with a ticket, under a configured public URL that is not the
\* default, has been answered with a page for the validated user.
C16_Witness ==
    /\ sso.visited
    /\ sso.ticket = S_ST_2
    /\ sso.public_url # PUBLIC_URL
    /\ sso.answer = CasAnswer("success", S_bob)
    /\ sso.response.kind = "page"
    /\ sso.response.jwt_token.sub = S_bob

\* C17: a visit with a ticket whose validation response lacks the success
\* structure, or whose validation call fails, ends in an error: no page and
\* no token, and one validation call, not repeated.
C17_SsoValidationFailure ==
    (sso.visited /\ Truthy(sso.ticket) /\ sso.answer.kind # "success")
    => /\ sso.response = Raised
       /\ Len(sso.validations) = 1

\* A visit whose validation response is an authenticationFailure has ended
\* in an error.
C17_Witness ==
    /\ sso.visited
    /\ sso.ticket = S_ST_1
    /\ sso.answer.kind = "failure"
    /\ sso.response.kind = "error"

----------------------------------------------------------------------------
(* Properties of the resolver's failures and of its cache, checked under   *)
(* ResolveSpec.                                                            *)

\* The step is a resolver call in which discovery raised.
DiscoveryRaised == last'.op = "resolve" /\ last'.raised

\* C18: a resolver call in which discovery raises returns not-found
\* instead of raising, stores the negative marker under the requested key
\* and leaves the other keys alone; the result and the cache are those of
\* the same call against a cluster that has no such kind.
C18_Step ==
    DiscoveryRaised
    => /\ last'.outcome = "ok"
       /\ last'.resolved = NoneDesc
       /\ last'.key \notin DOMAIN cache
       /\ cache' = Put(cache, last'.key, NoneDesc)
       /\ last'.resolved
            = get_resource_api(variant, cache, <<>>, FALSE, last'.key).result
       /\ cache'
            = get_resource_api(variant, cache, <<>>, FALSE, last'.key).cache

C18_DiscoveryErrorCachedNegative == [][C18_Step]_vars

\* Discovery raised while resolving "pods" in a cluster that has pods: the
\* call returned None and "pods" is cached as None.
C18_Witness ==
    /\ last.op = "resolve"
    /\ last.raised
    /\ last.key = S_pods
    /\ \E i \in 1..Len(listing) : listing[i] = PodsCore
    /\ last.resolved = NoneDesc
    /\ S_pods \in DOMAIN cache
    /\ cache[S_pods] = NoneDesc

----------------------------------------------------------------------------
(* Properties of the resolver called from several threads, checked under   *)
(* RaceSpec.                                                               *)

\* Calls i and j raced for one type: both have returned, and both missed
\* the cache and went to discovery.
Raced(i, j) ==
    /\ i # j
    /\ calls[i].pc = "done" /\ calls[j].pc = "done"
    /\ calls[i].key = calls[j].key
    /\ calls[i].queried /\ calls[j].queried

\* C19: calls that raced for one uncached type have all returned the same
\* result, and the cache holds that result under the type, as it would
\* after a single call.
C19_RacingCallsAgree ==
    \A i, j \in Racers :
        Raced(i, j)
        => /\ calls[i].result = calls[j].result
           /\ calls[i].key \in DOMAIN cache
           /\ cache[calls[i].key] = calls[i].result

\* The cached value is a descriptor that discovery lists, or None.
ValidCached(value) ==
    \/ value = NoneDesc
    \/ \E n \in 1..Len(listing) : listing[n] = value /\ ~value.malformed

\* A step leaves every cached key in the cache with its value.
CacheKept == \A k \in DOMAIN cache : k \in DOMAIN cache' /\ cache'[k] = cache[k]

\* C20: in every reachable state each cached key holds a descriptor or the
\* negative marker None, and no step changes or removes the value of a key
\* that has one.
C20_CacheInvariant ==
    /\ [](\A k \in DOMAIN cache : ValidCached(cache[k]))
    /\ [][CacheKept]_vars

----------------------------------------------------------------------------
(* Properties of the sanitizer's failures, checked under SanSpec.          *)

\* C21: clean_resource_object never raises: applied to any raw object and
\* type name it returns a document (a mapping), and applied to an empty or
\* absent raw object it returns the empty document.
C21_SanitizerNeverRaises ==
    san.clean_done
    => /\ ~san.raised
       /\ san.cleaned.t = "dict"
       /\ (~DocTruthy(san.obj) => san.cleaned = EmptyDict)

----------------------------------------------------------------------------
(* Properties of the tools' effect on the cluster, checked under Spec.     *)

\* C22: in every sequence of kubernetes_list and kubernetes_get calls,
\* every request sent to the transport is a read, and after every call the
\* cluster stores the objects it stored at the start.
C22_ToolsReadOnly ==
    /\ \A i \in 1..Len(last.requests) : last.requests[i].verb = "get"
    /\ cluster = ClusterObjects

\* kubernetes_get has read the pod default/web, after a request that
\* selected it, and the cluster stores what it stored at the start.
C22_Witness ==
    /\ last.op = "get"
    /\ last.outcome = "ok"
    /\ Len(last.requests) = 1
    /\ last.requests[1].name = S_web
    /\ Selected(last.requests[1]) # <<>>
    /\ cluster = ClusterObjects

----------------------------------------------------------------------------
(* Properties of the failures the tools surface, checked under Spec.       *)

\* The call failed because the resolver answered None for its type.
ResolverFoundNothing ==
    /\ last.op \in {"list", "get"}
    /\ last.outcome = "error"
    /\ last.resolved = NoneDesc
    /\ last.error.reason = "resource type not found"

\* C23: when the resolver finds no matching kind, the failure of
\* kubernetes_list and kubernetes_get is of a not-found kind of its own,
\* for the requested type, and is not the failure that the handler of
\* unexpected errors reports.
C23_NotFoundIsItsOwnKind ==
    ResolverFoundNothing
    => /\ last.error.by # "unexpected"
       /\ last.key # NoneV

----------------------------------------------------------------------------
(* Properties of the letter case of the type string, checked under         *)
(* CallSpec.                                                               *)

\* The call with its type string in lower case.
Lowered(call) == [call EXCEPT !.resource_type = Lower(@)]

\* The keys of the cache are in lower case.
LowerKeys(c) == \A k \in DOMAIN c : k = Lower(k)

\* C24: the type string is resolved case-insensitively.  A request that
\* reached the resolver used the lower-cased type string as its key, and
\* the cache has lower-cased keys only; and whatever the first request
\* left in the cache, a request and the same request with its type string
\* in lower case are answered alike and leave the same cache.
C24_CaseInsensitive ==
    /\ LowerKeys(cache)
    /\ (last.args # NoArgs /\ last.key # NoneV)
       => /\ last.key = Lower(last.key)
          /\ Lower(last.args.resource_type) \in {last.key, S_empty}
    /\ \A call \in ListCalls :
          call.resource_type # NoneV
          => kubernetes_list(variant, cache, listing, call)
               = kubernetes_list(variant, cache, listing, Lowered(call))
    /\ \A call \in GetCalls :
          call.resource_type # NoneV
          => kubernetes_get(variant, cache, listing, call)
               = kubernetes_get(variant, cache, listing, Lowered(call))

\* kubernetes_list("PODS") has been answered with the descriptor of pods,
\* which is cached under "pods" and under no other key.
C24_Witness ==
    /\ last.args # NoArgs
    /\ last.op = "list"
    /\ last.args.resource_type = S_PODS
    /\ last.outcome = "ok"
    /\ last.key = S_pods
    /\ last.resolved = PodsCore
    /\ DOMAIN cache = {S_pods}

----------------------------------------------------------------------------
(* Properties of the required parameters, checked under CallSpec.          *)

\* The recorded request lacks a required parameter: resource_type, or the
\* name of a kubernetes_get, is empty or None.
RequiredMissing ==
    /\ last.args # NoArgs
    /\ last.outcome # "rejected"
    /\ \/ ~Truthy(last.args.resource_type)
       \/ last.op = "get" /\ ~Truthy(last.args.name)

\* C25: a request whose required parameter is empty fails with a
\* validation error, without a call of the resolver and without a
\* transport request, and leaves the cache as it was.
C25_RequiredValidated ==
    RequiredMissing
    => /\ last.outcome = "error"
       /\ last.error = Err("tool", "validation")
       /\ ~last.queried /\ ~last.hit /\ last.key = NoneV
       /\ last.requests = <<>>
       /\ cache = <<>>

----------------------------------------------------------------------------
(* Properties of the namespace that reaches the transport, checked under   *)
(* CallSpec for the package's tools.                                       *)

\* A spelling of null: "none", "null" or nothing, in any letter case and
\* with any white space around it.
NullSpelling(s) == Lower(Strip(s)) \in {S_none, S_null, S_empty}

\* The recorded request of the package's tools reached the transport with
\* a namespaced descriptor.
NamespacedQuery ==
    /\ variant = "pkg"
    /\ last.args # NoArgs
    /\ last.op \in {"list", "get"}
    /\ last.requests # <<>>
    /\ last.resolved.namespaced

=============================================================================
